---- MODULE Spec2Model ----
(***************************************************************************)
(* Planificate_Back: the POI / ItineraryItem scheduling synchronisation    *)
(* (routes/itinerary.py) and the proximity duplicate guard of create_poi   *)
(* (routes/pois.py), as a state machine over the two tables.               *)
(*                                                                         *)
(* Time is in whole seconds since an epoch (datetime at second             *)
(* granularity); a calendar date is the day number of an instant.          *)
(* Coordinates are in metres of arc north / east of a reference point      *)
(* near the equator, so that the great-circle distance of two points that  *)
(* are a few hundred metres apart is their planar distance.                *)
(***************************************************************************)
EXTENDS Integers, Sequences, FiniteSets, TLC

\* ------------------------------------------------------------------ values
\* Optional[T]: None is the empty tuple, a present value v is <<v>>.
None == <<>>
Some(v) == <<v>>
Val(x) == x[1]
\* Python truth value of an Optional number (`if x:`): None and 0 are false.
Truthy(x) == x # None /\ x[1] # 0

\* ------------------------------------------------------------------ bounds
\* The number of POST requests a scenario issues for POIs / for items: the ids
\* the two sequences hand out.
MaxPois == 2
MaxItems == 2
DupMaxPois == 3
DupMaxItems == 1

\* ------------------------------------------------------------------ state
VARIABLES
    trips,     \* table trips: the ids of the rows (written by routes/trips.py only)
    pois,      \* table pois: id -> row
    items,     \* table itinerary_items: id -> row
    nextPoiId,     \* next value of the pois.id sequence
    nextItemId,    \* next value of the itinerary_items.id sequence
    response,      \* the last request's handler and its HTTP response
    inflight,      \* the requests received by a handler that suspends (create_poi,
                   \* optimize_route), each with the point it has reached
    heap,          \* the store's row order: the rank of each row id among rows
                   \* with equal sort keys (and of a query without ORDER BY)
    cache,         \* osm_services._cache: key -> [value, expiry]
    now,           \* datetime.utcnow(), in seconds
    oracle         \* the requests the last /osm handler sent to OSRM or Nominatim

db == <<trips, pois, items, nextPoiId, nextItemId>>
\* the state outside the database
osm == <<cache, now, oracle>>
aux == <<inflight, heap, cache, now, oracle>>
vars == <<trips, pois, items, nextPoiId, nextItemId, response, inflight, heap, cache, now, oracle>>

InitWith(D) ==
    /\ trips = D.trips
    /\ pois = <<>>
    /\ items = <<>>
    /\ nextPoiId = 1
    /\ nextItemId = 1
    /\ response = [op |-> "none", status |-> 0, id |-> None, effect |-> "none", detail |-> None]
    /\ inflight = <<>>
    /\ heap \in D.heaps
    /\ cache = <<>>
    /\ now = 0
    /\ oracle = <<>>

\* op: the handler; status: the HTTP status; id: the row the request wrote or
\* removed; effect: the POI side effect the handler took; detail: what an
\* HTTPException names.
ReplyOk(op, status, id, effect) ==
    response' = [op |-> op, status |-> status, id |-> Some(id), effect |-> effect, detail |-> None]

ReplyError(op, status, detail) ==
    /\ response' = [op |-> op, status |-> status, id |-> None, effect |-> "none", detail |-> detail]
    /\ UNCHANGED db

\* ------------------------------------------------------------------ queries
\* A variant of the lookup that filters by id only.
PoiOfAnyTrip(ps, poi_id, trip_id) ==
    IF poi_id \in DOMAIN ps THEN Some(poi_id) ELSE None

\* db.query(POI).filter_by(id=poi_id, trip_id=trip_id).first()
PoiInTrip(ps, poi_id, trip_id) ==
    IF poi_id \in DOMAIN ps /\ ps[poi_id].trip_id = trip_id THEN Some(poi_id) ELSE None

\* db.query(ItineraryItem).filter_by(id=item_id, trip_id=trip_id).first()
ItemInTrip(its, item_id, trip_id) ==
    IF item_id \in DOMAIN its /\ its[item_id].trip_id = trip_id THEN Some(item_id) ELSE None

\* ItineraryItem.poi_id == poi_id
ItemsOfPoi(its, poi_id) == {i \in DOMAIN its : its[i].poi_id = Some(poi_id)}

\* ItineraryItem.poi_id == poi_id, ItineraryItem.start_ts.isnot(None)
ScheduledItemsOfPoi(its, poi_id) ==
    {i \in ItemsOfPoi(its, poi_id) : its[i].start_ts # None}

\* ------------------------------------------------------------------ time
\* The minutes of a span rounded to the nearest whole minute (halves up).
MinutesRound(seconds) ==
    IF seconds >= 0 THEN (2 * seconds + 60) \div 120 ELSE -((2 * (-seconds) + 60) \div 120)

\* int(timedelta.total_seconds() / 60): the quotient truncated toward zero.
MinutesTrunc(seconds) ==
    IF seconds >= 0 THEN seconds \div 60 ELSE -((-seconds) \div 60)

\* datetime.date()
DateOf(t) == t \div 86400

\* ------------------------------------------------------------ SyncInvariant
\* A variant that schedules only a POI that has no schedule yet.
SetScheduleIfUnset(ps, poi_id, payload) ==
    [ps EXCEPT ![poi_id].scheduled_at = IF @ # None THEN @ ELSE payload.start_ts,
               ![poi_id].duration_minutes =
                   IF payload.end_ts # None /\ payload.start_ts # None
                   THEN Some(MinutesTrunc(Val(payload.end_ts) - Val(payload.start_ts)))
                   ELSE @]

\* A variant that keeps the earliest start: the POI is rescheduled only to an
\* earlier instant.
SetScheduleEarliest(ps, poi_id, payload) ==
    [ps EXCEPT ![poi_id].scheduled_at =
                   IF @ # None /\ Val(@) < Val(payload.start_ts) THEN @ ELSE payload.start_ts,
               ![poi_id].duration_minutes =
                   IF payload.end_ts # None /\ payload.start_ts # None
                   THEN Some(MinutesTrunc(Val(payload.end_ts) - Val(payload.start_ts)))
                   ELSE @]

\* poi.scheduled_at = payload.start_ts, and duration_minutes when end_ts is given
SetSchedule(ps, poi_id, payload) ==
    [ps EXCEPT ![poi_id].scheduled_at = payload.start_ts,
               ![poi_id].duration_minutes =
                   IF payload.end_ts # None /\ payload.start_ts # None
                   THEN Some(MinutesTrunc(Val(payload.end_ts) - Val(payload.start_ts)))
                   ELSE @]

Extend(f, k, v) == [x \in DOMAIN f \cup {k} |-> IF x = k THEN v ELSE f[x]]
Remove(f, k) == [x \in DOMAIN f \ {k} |-> f[x]]

\* poi_id is a foreign key to pois.id (models/ItineraryItem.py:10): the store
\* refuses an item row whose poi_id is not null and is no POI's id. The flush
\* or the commit then raises, the request ends in the 500 of the generic
\* exception handler and nothing of it is committed. Only a poi_id that the
\* handler's `if payload.poi_id:` skipped (0) can get this far.
ForeignKeyViolation(ps, payload) ==
    payload.poi_id # None /\ Val(payload.poi_id) \notin DOMAIN ps

\* POST /trips/{trip_id}/itinerary/
create_item(trip_id, payload) ==
    IF payload.trip_id # trip_id
    THEN ReplyError("create_item", 400, None)
    ELSE IF trip_id \notin trips
    THEN ReplyError("create_item", 404, None)
    ELSE LET poi == IF Truthy(payload.poi_id)
                    THEN PoiInTrip(pois, Val(payload.poi_id), trip_id)
                    ELSE None
         IN  IF Truthy(payload.poi_id) /\ poi = None
             THEN ReplyError("create_item", 404, None)
             ELSE IF ForeignKeyViolation(pois, payload)
             THEN ReplyError("create_item", 500, None)
             ELSE /\ items' = Extend(items, nextItemId, payload)
                  /\ nextItemId' = nextItemId + 1
                  /\ IF Truthy(payload.poi_id) /\ payload.start_ts # None /\ poi # None
                     THEN /\ pois' = SetSchedule(pois, Val(poi), payload)
                          /\ ReplyOk("create_item", 201, nextItemId, "scheduled")
                     ELSE /\ UNCHANGED pois
                          /\ ReplyOk("create_item", 201, nextItemId, "none")
                  /\ UNCHANGED <<trips, nextPoiId>>

ClearSchedule(ps, poi_id) == [ps EXCEPT ![poi_id].scheduled_at = None]

\* The branch update_item takes for its POI side effect (lines 77-99): schedule
\* the payload's POI, otherwise re-evaluate the POI the item referenced before.
UpdateItemBranch(ps, its, trip_id, item_id, old_poi_id, payload) ==
    IF Truthy(payload.poi_id) /\ payload.start_ts # None
    THEN IF PoiInTrip(ps, Val(payload.poi_id), trip_id) # None THEN "scheduled" ELSE "none"
    ELSE IF Truthy(old_poi_id) /\ old_poi_id # payload.poi_id
         THEN IF PoiInTrip(ps, Val(old_poi_id), trip_id) # None
              THEN IF ScheduledItemsOfPoi(its, Val(old_poi_id)) \ {item_id} = {}
                   THEN "cleared"
                   ELSE "kept"
              ELSE "none"
         ELSE "none"

UpdateItemPois(ps, branch, old_poi_id, payload) ==
    CASE branch = "scheduled" -> SetSchedule(ps, Val(payload.poi_id), payload)
      [] branch = "cleared" -> ClearSchedule(ps, Val(old_poi_id))
      [] OTHER -> ps

\* PUT /trips/{trip_id}/itinerary/{item_id}
update_item(trip_id, item_id, payload) ==
    IF ItemInTrip(items, item_id, trip_id) = None
    THEN ReplyError("update_item", 404, None)
    ELSE IF Truthy(payload.poi_id) /\ PoiInTrip(pois, Val(payload.poi_id), trip_id) = None
    THEN ReplyError("update_item", 404, None)
    ELSE IF payload.trip_id # trip_id
    THEN ReplyError("update_item", 400, None)
    ELSE IF ForeignKeyViolation(pois, payload)
    THEN ReplyError("update_item", 500, None)
    ELSE LET old_poi_id == items[item_id].poi_id
             written == [items EXCEPT ![item_id] = payload]
             branch == UpdateItemBranch(pois, written, trip_id, item_id, old_poi_id, payload)
         IN  /\ items' = written
             /\ pois' = UpdateItemPois(pois, branch, old_poi_id, payload)
             /\ ReplyOk("update_item", 200, item_id, branch)
             /\ UNCHANGED <<trips, nextPoiId, nextItemId>>

\* The branch delete_item takes for the POI of the deleted item (lines
\* 129-148), on the items left after the delete was flushed.
\* Variants: the POI is never deleted, only unscheduled; the schedule is
\* cleared whenever the POI is kept.
DeleteItemBranchNeverDeletes(remaining, poi_id) ==
    IF Cardinality(ScheduledItemsOfPoi(remaining, poi_id)) = 0 THEN "cleared" ELSE "kept"

DeleteItemBranchAlwaysClears(remaining, poi_id) ==
    IF Cardinality(ItemsOfPoi(remaining, poi_id)) = 0 THEN "deleted" ELSE "cleared"

DeleteItemBranch(remaining, poi_id) ==
    IF Cardinality(ItemsOfPoi(remaining, poi_id)) = 0
    THEN "deleted"
    ELSE IF Cardinality(ScheduledItemsOfPoi(remaining, poi_id)) = 0
         THEN "cleared"
         ELSE "kept"

DeleteItemPois(ps, branch, poi_id) ==
    CASE branch = "deleted" -> Remove(ps, Val(poi_id))
      [] branch = "cleared" -> ClearSchedule(ps, Val(poi_id))
      [] OTHER -> ps

\* DELETE /trips/{trip_id}/itinerary/{item_id}
delete_item(trip_id, item_id) ==
    IF ItemInTrip(items, item_id, trip_id) = None
    THEN ReplyError("delete_item", 404, None)
    ELSE LET poi_id == items[item_id].poi_id
             poi == IF Truthy(poi_id) THEN PoiInTrip(pois, Val(poi_id), trip_id) ELSE None
             remaining == Remove(items, item_id)
             branch == IF Truthy(poi_id) /\ poi # None
                       THEN DeleteItemBranch(remaining, Val(poi_id))
                       ELSE "none"
         IN  /\ items' = remaining
             /\ pois' = DeleteItemPois(pois, branch, poi_id)
             /\ ReplyOk("delete_item", 204, item_id, branch)
             /\ UNCHANGED <<trips, nextPoiId, nextItemId>>

\* --------------------------------------------------------------- distance
\* The integer square root (floor), by halving.
RECURSIVE ISqrt(_)
ISqrt(n) ==
    IF n < 2 THEN n
    ELSE LET s == 2 * ISqrt(n \div 4)
         IN  IF (s + 1) * (s + 1) <= n THEN s + 1 ELSE s

\* haversine_distance, in metres rounded up to a whole metre (so that
\* `distance <= k` for a whole k is decided as for the real distance). For
\* points this close the great circle is the straight line of the local plane.
haversine_distance(lat1, lon1, lat2, lon2) ==
    LET sq == (lat2 - lat1) * (lat2 - lat1) + (lon2 - lon1) * (lon2 - lon1)
        r == ISqrt(sq)
    IN  IF r * r = sq THEN r ELSE r + 1

MAX_DISTANCE_METERS == 100

\* ------------------------------------------------- ProximityDuplicateGuard
\* POI.trip_id == trip_id, POI.lat.isnot(None), POI.lng.isnot(None)
ExistingPois(ps, trip_id) ==
    {e \in DOMAIN ps : ps[e].trip_id = trip_id /\ ps[e].lat # None /\ ps[e].lng # None}

\* The date of the candidate: that of its own scheduled_at (lines 69-78).
NewPoiDate(scheduled_at) ==
    IF scheduled_at # None THEN Some(DateOf(Val(scheduled_at))) ELSE None

\* A variant that takes the last of the scheduled items of a POI.
LatestStart(its, poi_id) ==
    LET S == ScheduledItemsOfPoi(its, poi_id)
    IN  IF S = {} THEN None
        ELSE its[CHOOSE i \in S : \A j \in S : Val(its[i].start_ts) >= Val(its[j].start_ts)].start_ts

\* .order_by(ItineraryItem.start_ts).first() over the scheduled items of a POI
EarliestStart(its, poi_id) ==
    LET S == ScheduledItemsOfPoi(its, poi_id)
    IN  IF S = {} THEN None
        ELSE its[CHOOSE i \in S : \A j \in S : Val(its[i].start_ts) <= Val(its[j].start_ts)].start_ts

\* The date of an existing POI (lines 92-109): its scheduled_at, else its
\* earliest scheduled item.
ExistingPoiDate(ps, its, e) ==
    IF ps[e].scheduled_at # None
    THEN Some(DateOf(Val(ps[e].scheduled_at)))
    ELSE IF EarliestStart(its, e) # None
         THEN Some(DateOf(Val(EarliestStart(its, e))))
         ELSE None

\* The verdict of one turn of the loop (lines 80-123) on existing POI e: None
\* (go on) or the HTTPException's detail.
Conflict(ps, its, e, lat, lng, new_poi_date) ==
    IF haversine_distance(Val(lat), Val(lng), Val(ps[e].lat), Val(ps[e].lng)) <= MAX_DISTANCE_METERS
    THEN LET existing_poi_date == ExistingPoiDate(ps, its, e)
         IN  IF new_poi_date # None /\ existing_poi_date # None /\ new_poi_date = existing_poi_date
             THEN Some([kind |-> "same_day", poi |-> e])
             ELSE IF new_poi_date = None /\ existing_poi_date = None
                  THEN Some([kind |-> "unscheduled", poi |-> e])
                  ELSE None
    ELSE None

\* A variant of the loop that leaves at the first nearby POI, whatever the
\* verdict on it.
RECURSIVE DuplicateScanFirstNearby(_, _, _, _, _, _)
DuplicateScanFirstNearby(order, ps, its, lat, lng, new_poi_date) ==
    IF order = <<>> THEN None
    ELSE LET e == Head(order)
         IN  IF haversine_distance(Val(lat), Val(lng), Val(ps[e].lat), Val(ps[e].lng))
                    <= MAX_DISTANCE_METERS
             THEN Conflict(ps, its, e, lat, lng, new_poi_date)
             ELSE DuplicateScanFirstNearby(Tail(order), ps, its, lat, lng, new_poi_date)

\* The loop over existing_pois in the order the query returned them: the
\* first conflict raises.
RECURSIVE DuplicateScan(_, _, _, _, _, _)
DuplicateScan(order, ps, its, lat, lng, new_poi_date) ==
    IF order = <<>> THEN None
    ELSE LET verdict == Conflict(ps, its, Head(order), lat, lng, new_poi_date)
         IN  IF verdict # None THEN verdict
             ELSE DuplicateScan(Tail(order), ps, its, lat, lng, new_poi_date)

\* The orders a query without ORDER BY may return the rows of S in.
Orders(S) ==
    {o \in [1..Cardinality(S) -> S] : \A i, j \in 1..Cardinality(S) : i # j => o[i] # o[j]}

\* lines 28-35: the geocoder is asked only for a payload that lacks a
\* coordinate and has a place query; geos are the answers it may give.
GeocoderAnswers(payload, geos) ==
    IF (payload.lat = None \/ payload.lng = None) /\ payload.place THEN geos ELSE {None}

\* lines 27-43: the coordinates after auto-geocoding; geo is the oracle's
\* answer (None: no result or a failure).
Geocoded(payload, geo) ==
    IF (payload.lat = None \/ payload.lng = None) /\ payload.place /\ geo # None
    THEN [lat |-> Some(geo[1][1]), lng |-> Some(geo[1][2])]
    ELSE [lat |-> payload.lat, lng |-> payload.lng]

\* lines 56-57: whether the duplicate check runs for these coordinates
CheckRuns(lat, lng) == Truthy(lat) /\ Truthy(lng)

\* POST /trips/{trip_id}/pois/
create_poi(trip_id, payload, geo, order) ==
    IF payload.trip_id # trip_id
    THEN ReplyError("create_poi", 400, None)
    ELSE IF trip_id \notin trips
    THEN ReplyError("create_poi", 404, None)
    ELSE LET data == Geocoded(payload, geo)
             verdict == IF CheckRuns(data.lat, data.lng)
                        THEN DuplicateScan(order, pois, items, data.lat, data.lng,
                                           NewPoiDate(payload.scheduled_at))
                        ELSE None
         IN  IF verdict # None
             THEN ReplyError("create_poi", 400, verdict)
             ELSE /\ pois' = Extend(pois, nextPoiId,
                                    [trip_id |-> trip_id, name |-> payload.name,
                                     lat |-> data.lat, lng |-> data.lng,
                                     scheduled_at |-> payload.scheduled_at,
                                     duration_minutes |-> payload.duration_minutes])
                  /\ nextPoiId' = nextPoiId + 1
                  /\ ReplyOk("create_poi", 201, nextPoiId, "none")
                  /\ UNCHANGED <<trips, items, nextItemId>>

\* A variant that re-synchronises: a null scheduled_at is not written.
WritePoiKeepsSchedule(row, payload) ==
    [row EXCEPT !.name = payload.name, !.lat = payload.lat, !.lng = payload.lng,
                !.scheduled_at = IF payload.scheduled_at = None THEN @ ELSE payload.scheduled_at,
                !.duration_minutes = payload.duration_minutes]

\* for k, v in payload.model_dump().items(): setattr(poi, k, v)
WritePoi(row, payload) ==
    [row EXCEPT !.name = payload.name, !.lat = payload.lat, !.lng = payload.lng,
                !.scheduled_at = payload.scheduled_at,
                !.duration_minutes = payload.duration_minutes]

\* PUT /trips/{trip_id}/pois/{poi_id}
update_poi(trip_id, poi_id, payload) ==
    IF PoiInTrip(pois, poi_id, trip_id) = None
    THEN ReplyError("update_poi", 404, None)
    ELSE IF payload.trip_id # trip_id
    THEN ReplyError("update_poi", 400, None)
    ELSE /\ pois' = [pois EXCEPT ![poi_id] = WritePoi(@, payload)]
         /\ ReplyOk("update_poi", 200, poi_id, "none")
         /\ UNCHANGED <<trips, items, nextPoiId, nextItemId>>

\* payload.model_dump(exclude_unset=True): only the fields the request set
PatchPoi(row, payload) ==
    [f \in DOMAIN row |-> IF f \in payload.fields_set THEN payload[f] ELSE row[f]]

\* PATCH /pois/{poi_id}
update_poi_by_id(poi_id, payload) ==
    IF poi_id \notin DOMAIN pois
    THEN ReplyError("update_poi_by_id", 404, None)
    ELSE /\ pois' = [pois EXCEPT ![poi_id] = PatchPoi(@, payload)]
         /\ ReplyOk("update_poi_by_id", 200, poi_id, "none")
         /\ UNCHANGED <<trips, items, nextPoiId, nextItemId>>

\* A variant of the delete that leaves the items of the POI as they are.
DeletePoiOnly(poi_id) ==
    /\ pois' = Remove(pois, poi_id)
    /\ UNCHANGED <<trips, items, nextPoiId, nextItemId>>

\* db.delete(poi): the rows of itinerary_items that reference it keep existing
\* with poi_id NULL (ForeignKey("pois.id", ondelete="SET NULL")).
DeletePoi(poi_id) ==
    /\ pois' = Remove(pois, poi_id)
    /\ items' = [i \in DOMAIN items |->
                    IF items[i].poi_id = Some(poi_id)
                    THEN [items[i] EXCEPT !.poi_id = None]
                    ELSE items[i]]
    /\ UNCHANGED <<trips, nextPoiId, nextItemId>>

\* DELETE /trips/{trip_id}/pois/{poi_id}
delete_poi(trip_id, poi_id) ==
    IF PoiInTrip(pois, poi_id, trip_id) = None
    THEN ReplyError("delete_poi", 404, None)
    ELSE DeletePoi(poi_id) /\ ReplyOk("delete_poi", 204, poi_id, "none")

\* DELETE /pois/{poi_id}
delete_poi_by_id(poi_id) ==
    IF poi_id \notin DOMAIN pois
    THEN ReplyError("delete_poi_by_id", 404, None)
    ELSE DeletePoi(poi_id) /\ ReplyOk("delete_poi_by_id", 204, poi_id, "none")

\* ------------------------------------------------------------------ requests
\* The row order of a store that keeps n POI rows and m item rows in id order,
\* and the row orders a store may keep them in.
RowOrder(n, m) == [pois |-> [p \in 1..n |-> p], items |-> [i \in 1..m |-> i]]

RowPermutations(n) == {f \in [1..n -> 1..n] : \A i, j \in 1..n : i # j => f[i] # f[j]}

RowOrders(n, m) == {[pois |-> f, items |-> g] : f \in RowPermutations(n), g \in RowPermutations(m)}

Opt(S) == {None} \cup {Some(v) : v \in S}

\* A variant of the schema in which start_ts is optional.
ItineraryItemWriteOptionalStart(trip_ids, poi_ids, slots) ==
    {[trip_id |-> t, poi_id |-> p, start_ts |-> IF given THEN Some(slot[1]) ELSE None,
      end_ts |-> slot[2]] :
        t \in trip_ids, p \in poi_ids, slot \in slots, given \in BOOLEAN}

\* ItineraryItemWrite: start_ts is required, end_ts and poi_id are optional;
\* a slot is <<start_ts, end_ts>>.
ItineraryItemWrite(trip_ids, poi_ids, slots) ==
    {[trip_id |-> t, poi_id |-> p, start_ts |-> Some(slot[1]), end_ts |-> slot[2]] :
        t \in trip_ids, p \in poi_ids, slot \in slots}

\* POIWrite; coords: <<lat, lng>>; place: whether address, place_name, city or
\* country is given
POIWrite(trip_ids, coords, places, scheds, durs) ==
    {[trip_id |-> t, name |-> "a", lat |-> c[1], lng |-> c[2], place |-> pl,
      scheduled_at |-> s, duration_minutes |-> d] :
        t \in trip_ids, c \in coords, pl \in places, s \in scheds, d \in durs}

\* POIUpdate; fields_set: the fields present in the request body
POIUpdate(fields_sets, coords, scheds, durs) ==
    {[fields_set |-> f, name |-> "a", lat |-> c[1], lng |-> c[2],
      scheduled_at |-> s, duration_minutes |-> d] :
        f \in fields_sets, c \in coords, s \in scheds, d \in durs}

\* A request with the path's trip_id equal to the body's
OnTrip(payloads) == {<<payload.trip_id, payload>> : payload \in payloads}

\* The requests of the scheduling scenarios: one trip, POIs without
\* coordinates, item times at second granularity (an item of 89 min 30 s, an
\* item that ends 30 s before it starts).
SyncSlots == {<<0, None>>, <<30, Some(5400)>>, <<30, Some(0)>>}

SyncDom ==
    [trips |-> {1}, trip_ids |-> {1}, geos |-> {None},
     max_pois |-> MaxPois, max_items |-> MaxItems, heaps |-> {RowOrder(MaxPois, MaxItems)},
     poi_posts |-> OnTrip(POIWrite({1}, {<<None, None>>}, {FALSE}, {None, Some(0)}, {None})),
     poi_puts |-> OnTrip(POIWrite({1}, {<<None, None>>}, {FALSE}, {None, Some(0)}, {None})),
     poi_patches |-> POIUpdate({{"scheduled_at"}}, {<<None, None>>}, {None, Some(0)}, {None}),
     item_writes |-> OnTrip(ItineraryItemWrite({1}, Opt(1..MaxPois), SyncSlots))]

Next(D) ==
    \/ \E req \in D.poi_posts :
         \E geo \in GeocoderAnswers(req[2], D.geos), order \in Orders(ExistingPois(pois, req[1])) :
            nextPoiId <= D.max_pois /\ create_poi(req[1], req[2], geo, order) /\ UNCHANGED aux
    \/ \E req \in D.poi_puts, p \in 1..D.max_pois : update_poi(req[1], p, req[2]) /\ UNCHANGED aux
    \/ \E p \in 1..D.max_pois, payload \in D.poi_patches :
            update_poi_by_id(p, payload) /\ UNCHANGED aux
    \/ \E t \in D.trip_ids, p \in 1..D.max_pois : delete_poi(t, p) /\ UNCHANGED aux
    \/ \E p \in 1..D.max_pois : delete_poi_by_id(p) /\ UNCHANGED aux
    \/ \E req \in D.item_writes :
            nextItemId <= D.max_items /\ create_item(req[1], req[2]) /\ UNCHANGED aux
    \/ \E req \in D.item_writes, i \in 1..D.max_items :
            update_item(req[1], i, req[2]) /\ UNCHANGED aux
    \/ \E t \in D.trip_ids, i \in 1..D.max_items : delete_item(t, i) /\ UNCHANGED aux

Spec == InitWith(SyncDom) /\ [][Next(SyncDom)]_vars

\* The same requests, but no POI request ever writes a non-null scheduled_at:
\* every POI is created unscheduled and is never scheduled directly.
UnscheduledDom ==
    [SyncDom EXCEPT
        !.poi_posts = {req \in @ : req[2].scheduled_at = None},
        !.poi_puts = {req \in @ : req[2].scheduled_at = None},
        !.poi_patches = {payload \in @ : payload.scheduled_at = None}]

SpecUnscheduled == InitWith(UnscheduledDom) /\ [][Next(UnscheduledDom)]_vars

\* The requests of the duplicate-guard scenarios. Two trips exist; trip 3 does
\* not. Points Z = (0, 7), A = (100, 7) and B = (201, 7): Z-A is exactly 100 m,
\* A-B is 101 m, and Z has latitude 0. A POI is posted with coordinates, or with
\* a place only, which the geocoder resolves to A or does not resolve. Days 0
\* and 1; an item at 01:00 of day 0.
DupCoords == {<<Some(0), Some(7)>>, <<Some(100), Some(7)>>, <<Some(201), Some(7)>>}

DupDom ==
    [trips |-> {1, 2}, trip_ids |-> {1, 2}, geos |-> {None, Some(<<100, 7>>)},
     max_pois |-> DupMaxPois, max_items |-> DupMaxItems,
     heaps |-> {RowOrder(DupMaxPois, DupMaxItems)},
     poi_posts |->
         OnTrip(POIWrite({1}, DupCoords, {FALSE}, {None, Some(0), Some(86400)}, {None}))
         \cup OnTrip(POIWrite({1}, {<<None, None>>}, {TRUE}, {None}, {None}))
         \cup OnTrip(POIWrite({2, 3}, {<<Some(100), Some(7)>>}, {FALSE}, {None}, {None}))
         \cup {<<1, payload>> : payload \in POIWrite({2}, {<<None, None>>}, {FALSE}, {None}, {None})},
     poi_puts |-> OnTrip(POIWrite({1}, {<<Some(100), Some(7)>>}, {FALSE}, {None}, {None})),
     poi_patches |-> POIUpdate({{"scheduled_at"}}, {<<None, None>>}, {None}, {None}),
     item_writes |-> OnTrip(ItineraryItemWrite({1}, {Some(p) : p \in 1..DupMaxPois}, {<<3600, None>>}))]

SpecDup == InitWith(DupDom) /\ [][Next(DupDom)]_vars

\* The requests of the effective-date scenarios: every POI at one position,
\* scheduled on day 0, 1 or 2 or not at all, items on day 0 and day 1, and
\* requests that clear a POI's scheduled_at while its items stay.
DateDom ==
    [trips |-> {1}, trip_ids |-> {1}, geos |-> {None},
     max_pois |-> DupMaxPois, max_items |-> MaxItems,
     heaps |-> {RowOrder(DupMaxPois, MaxItems)},
     poi_posts |->
         OnTrip(POIWrite({1}, {<<Some(100), Some(7)>>}, {FALSE},
                         {None, Some(0), Some(86400), Some(172800)}, {None})),
     poi_puts |-> OnTrip(POIWrite({1}, {<<Some(100), Some(7)>>}, {FALSE}, {None}, {None})),
     poi_patches |-> POIUpdate({{"scheduled_at"}}, {<<None, None>>}, {None}, {None}),
     item_writes |->
         OnTrip(ItineraryItemWrite({1}, {Some(1), Some(2)}, {<<3600, None>>, <<90000, None>>}))]

SpecDate == InitWith(DateDom) /\ [][Next(DateDom)]_vars

\* The requests of the reference scenarios: two trips with POIs of their own,
\* item requests whose path, body trip and poi_id vary independently, poi_id 0
\* and ids of POIs of the other trip or of no POI included.
RefDom ==
    [trips |-> {1, 2}, trip_ids |-> {1, 2}, geos |-> {None},
     max_pois |-> MaxPois, max_items |-> MaxItems, heaps |-> {RowOrder(MaxPois, MaxItems)},
     poi_posts |-> OnTrip(POIWrite({1, 2}, {<<None, None>>}, {FALSE}, {None}, {None})),
     poi_puts |-> OnTrip(POIWrite({1, 2}, {<<None, None>>}, {FALSE}, {Some(0)}, {None})),
     poi_patches |-> POIUpdate({{"scheduled_at"}}, {<<None, None>>}, {None}, {None}),
     item_writes |->
         {<<t, payload>> :
             t \in {1, 2},
             payload \in ItineraryItemWrite({1, 2}, Opt(0..MaxPois), {<<0, None>>, <<30, None>>})}]

SpecRef == InitWith(RefDom) /\ [][Next(RefDom)]_vars

\* ---------------------------------------------------------- TimelineAssembler
\* .order_by(key).all() over the rows S: ascending key, rows with equal keys
\* in the store's row order; key and rank are functions on S.
RECURSIVE OrderBy(_, _, _)
OrderBy(S, key, rank) ==
    IF S = {} THEN <<>>
    ELSE LET m == CHOOSE x \in S : \A y \in S :
                      key[x] < key[y] \/ (key[x] = key[y] /\ rank[x] <= rank[y])
         IN  <<m>> \o OrderBy(S \ {m}, key, rank)

\* datetime.min (year 1) precedes every timestamp; it stands as the least
\* time the model represents.
DATETIME_MIN == -2147483647

\* key=lambda a: a.start_time or datetime.min
SortKey(a) == IF a.start_time # None THEN Val(a.start_time) ELSE DATETIME_MIN

\* list.sort(key=...): a stable sort, here by insertion of each element after
\* the elements whose key is not greater.
\* A variant that puts each element first, whatever its key.
InsertAtFront(sorted, a) == <<a>> \o sorted

RECURSIVE InsertByStart(_, _)
InsertByStart(sorted, a) ==
    IF sorted = <<>> THEN <<a>>
    ELSE IF SortKey(Head(sorted)) <= SortKey(a)
         THEN <<Head(sorted)>> \o InsertByStart(Tail(sorted), a)
         ELSE <<a>> \o sorted

RECURSIVE SortByStart(_)
SortByStart(activities) ==
    IF activities = <<>> THEN <<>>
    ELSE InsertByStart(SortByStart(SubSeq(activities, 1, Len(activities) - 1)),
                       activities[Len(activities)])

\* lines 193-195: end_time of a POI activity (`if poi.scheduled_at and
\* poi.duration_minutes`: a datetime is always true, 0 minutes is false)
PoiEndTime(poi) ==
    IF poi.scheduled_at # None /\ Truthy(poi.duration_minutes)
    THEN Some(Val(poi.scheduled_at) + 60 * Val(poi.duration_minutes))
    ELSE None

\* lines 197-210: the activity of scheduled POI p
PoiActivity(p) ==
    [id |-> <<"poi", p>>, type |-> "poi", start_time |-> pois[p].scheduled_at,
     end_time |-> PoiEndTime(pois[p]), duration_minutes |-> pois[p].duration_minutes,
     poi_id |-> Some(p), itinerary_item_id |-> None]

\* lines 221-234: the activity of scheduled item i
ItemActivity(i) ==
    [id |-> <<"item", i>>, type |-> "itinerary_item", start_time |-> items[i].start_ts,
     end_time |-> items[i].end_ts,
     duration_minutes |->
         IF items[i].end_ts # None /\ items[i].start_ts # None
         THEN Some(MinutesTrunc(Val(items[i].end_ts) - Val(items[i].start_ts)))
         ELSE None,
     poi_id |-> items[i].poi_id, itinerary_item_id |-> Some(i)]

\* lines 189-238: the activities of the trip, POIs then items, sorted by start
Activities(trip_id) ==
    LET SP == {p \in DOMAIN pois : pois[p].trip_id = trip_id /\ pois[p].scheduled_at # None}
        SI == {i \in DOMAIN items : items[i].trip_id = trip_id /\ items[i].start_ts # None}
        scheduled_pois == OrderBy(SP, [p \in SP |-> Val(pois[p].scheduled_at)], heap.pois)
        scheduled_items == OrderBy(SI, [i \in SI |-> Val(items[i].start_ts)], heap.items)
    IN  SortByStart([k \in 1..Len(scheduled_pois) |-> PoiActivity(scheduled_pois[k])]
                    \o [k \in 1..Len(scheduled_items) |-> ItemActivity(scheduled_items[k])])

\* A variant that measures the gap in minutes rounded to the nearest minute.
FreeTimeSlotsRounded(acts) ==
    LET Gap(i) == Val(acts[i + 1].start_time) - Val(acts[i].end_time)
        Free == {i \in 1..(Len(acts) - 1) :
                    /\ acts[i].end_time # None /\ acts[i + 1].start_time # None
                    /\ MinutesRound(Gap(i)) >= 15}
    IN  [k \in 1..Cardinality(Free) |->
            LET i == CHOOSE x \in Free : Cardinality({y \in Free : y < x}) = k - 1
            IN  [start_time |-> acts[i].end_time, end_time |-> acts[i + 1].start_time,
                 duration_minutes |-> MinutesRound(Gap(i))]]

\* lines 257-272: the free-time slots of a day's activities; gap_minutes >= 15
\* on the quotient seconds / 60 is seconds >= 15 * 60.
FreeTimeSlots(acts) ==
    LET Gap(i) == Val(acts[i + 1].start_time) - Val(acts[i].end_time)
        Free == {i \in 1..(Len(acts) - 1) :
                    /\ acts[i].end_time # None /\ acts[i + 1].start_time # None
                    /\ Gap(i) >= 15 * 60}
    IN  [k \in 1..Cardinality(Free) |->
            LET i == CHOOSE x \in Free : Cardinality({y \in Free : y < x}) = k - 1
            IN  [start_time |-> acts[i].end_time, end_time |-> acts[i + 1].start_time,
                 duration_minutes |-> MinutesTrunc(Gap(i))]]

\* lines 240-254: the day of one date
ScheduleDay(activities, day_key) ==
    LET OfDay(a) == a.start_time # None /\ DateOf(Val(a.start_time)) = day_key
        acts == SortByStart(SelectSeq(activities, OfDay))
    IN  [date |-> day_key, activities |-> acts, free_time_slots |-> FreeTimeSlots(acts)]

\* A variant whose unscheduled lists hold every POI and item of the trip.
TripScheduleListingAll(trip_id) ==
    LET activities == Activities(trip_id)
        Dates == {DateOf(Val(activities[k].start_time)) : k \in DOMAIN activities}
        days_list == OrderBy(Dates, [d \in Dates |-> d], [d \in Dates |-> 0])
        UP == {p \in DOMAIN pois : pois[p].trip_id = trip_id}
        UI == {i \in DOMAIN items : items[i].trip_id = trip_id}
    IN  [trip_id |-> trip_id,
         days |-> [k \in 1..Len(days_list) |-> ScheduleDay(activities, days_list[k])],
         unscheduled_pois |-> OrderBy(UP, [p \in UP |-> 0], heap.pois),
         unscheduled_items |-> OrderBy(UI, [i \in UI |-> 0], heap.items)]

\* lines 240-315: the schedule of a trip
TripSchedule(trip_id) ==
    LET activities == Activities(trip_id)
        Dates == {DateOf(Val(activities[k].start_time)) :
                     k \in {j \in 1..Len(activities) : activities[j].start_time # None}}
        days_list == OrderBy(Dates, [d \in Dates |-> d], [d \in Dates |-> 0])
        UP == {p \in DOMAIN pois : pois[p].trip_id = trip_id /\ pois[p].scheduled_at = None}
        UI == {i \in DOMAIN items : items[i].trip_id = trip_id /\ items[i].start_ts = None}
    IN  [trip_id |-> trip_id,
         days |-> [k \in 1..Len(days_list) |-> ScheduleDay(activities, days_list[k])],
         unscheduled_pois |-> OrderBy(UP, [p \in UP |-> 0], heap.pois),
         unscheduled_items |-> OrderBy(UI, [i \in UI |-> 0], heap.items)]

\* A variant after which the store keeps its rows in another order.
get_schedule_reordering(trip_id) ==
    /\ trip_id \in trips
    /\ response' = [op |-> "get_schedule", status |-> 200, id |-> Some(trip_id),
                    effect |-> "none", detail |-> None, body |-> TripSchedule(trip_id)]
    /\ heap' \in RowOrders(MaxPois, MaxItems) \ {heap}
    /\ UNCHANGED <<db, inflight, osm>>

\* GET /trips/{trip_id}/itinerary/schedule
get_schedule(trip_id) ==
    IF trip_id \notin trips
    THEN ReplyError("get_schedule", 404, None) /\ UNCHANGED aux
    ELSE /\ response' = [op |-> "get_schedule", status |-> 200, id |-> Some(trip_id),
                         effect |-> "none", detail |-> None, body |-> TripSchedule(trip_id)]
         /\ UNCHANGED <<db, aux>>

\* The requests of the timeline scenarios. A POI for 00:30 of day 0 or
\* unscheduled, of 15 minutes, of 0 minutes or of unknown duration, which a PUT
\* moves to day 1; items without POI from 00:00 to 00:15 and at 00:29:59,
\* 00:30:00 and 00:30:59; a POI of trip 2; no trip 3.
SchedSlots == {<<0, Some(900)>>, <<1799, None>>, <<1800, None>>, <<1859, None>>}

SchedDom ==
    [trips |-> {1, 2}, trip_ids |-> {1}, geos |-> {None},
     max_pois |-> MaxPois, max_items |-> MaxItems, heaps |-> RowOrders(MaxPois, MaxItems),
     poi_posts |->
         OnTrip(POIWrite({1}, {<<None, None>>}, {FALSE}, {None, Some(1800)}, {None, Some(0), Some(15)}))
         \cup OnTrip(POIWrite({2}, {<<None, None>>}, {FALSE}, {Some(0)}, {None})),
     poi_puts |-> OnTrip(POIWrite({1}, {<<None, None>>}, {FALSE}, {Some(86400)}, {Some(15)})),
     poi_patches |-> POIUpdate({{"scheduled_at"}}, {<<None, None>>}, {None}, {None}),
     item_writes |-> OnTrip(ItineraryItemWrite({1}, {None}, SchedSlots))]

NextSchedule ==
    \/ Next(SchedDom)
    \/ \E trip_id \in {1, 2, 3} : get_schedule(trip_id)

SpecSchedule == InitWith(SchedDom) /\ [][NextSchedule]_vars

\* The requests of the overlap scenarios: a POI from 00:00 to 02:00 of day 0,
\* items without POI from 00:10 to 00:15 and at 00:30.
OverlapDom ==
    [trips |-> {1}, trip_ids |-> {1}, geos |-> {None},
     max_pois |-> MaxPois, max_items |-> MaxItems, heaps |-> {RowOrder(MaxPois, MaxItems)},
     poi_posts |-> OnTrip(POIWrite({1}, {<<None, None>>}, {FALSE}, {Some(0)}, {None, Some(120)})),
     poi_puts |-> OnTrip(POIWrite({1}, {<<None, None>>}, {FALSE}, {Some(0)}, {Some(120)})),
     poi_patches |-> POIUpdate({{"scheduled_at"}}, {<<None, None>>}, {None}, {None}),
     item_writes |-> OnTrip(ItineraryItemWrite({1}, {None}, {<<600, Some(900)>>, <<1800, None>>}))]

NextOverlap ==
    \/ Next(OverlapDom)
    \/ get_schedule(1)

SpecOverlap == InitWith(OverlapDom) /\ [][NextOverlap]_vars

\* The scheduling scenarios with the schedule read between the writes.
NextStart ==
    \/ Next(SyncDom)
    \/ get_schedule(1)

SpecStart == InitWith(SyncDom) /\ [][NextStart]_vars

\* --------------------------------------------------------------- OSM services
\* CACHE_TTL = timedelta(hours=1)
CACHE_TTL == 3600

\* _get_cache(key): the stored value while utcnow() < expiry, else None
get_cache(key) ==
    IF key \in DOMAIN cache /\ now < cache[key].expiry
    THEN Some(cache[key].value)
    ELSE None

\* _get_cache(key), its effect: `del _cache[key]` of an entry that has expired
AfterLookup(key) ==
    IF key \in DOMAIN cache /\ ~(now < cache[key].expiry)
    THEN [k \in (DOMAIN cache) \ {key} |-> cache[k]]
    ELSE cache

\* A variant that stores the new value under the expiry the entry had.
set_cache_keeping_expiry(c, key, value) ==
    [k \in (DOMAIN c) \cup {key} |->
        IF k = key
        THEN [value |-> value,
              expiry |-> IF key \in DOMAIN c THEN c[key].expiry ELSE now + CACHE_TTL]
        ELSE c[k]]

\* _set_cache(key, value) on the cache c: one assignment of the pair
set_cache(c, key, value) ==
    [k \in (DOMAIN c) \cup {key} |->
        IF k = key THEN [value |-> value, expiry |-> now + CACHE_TTL] ELSE c[k]]

\* `if cached:` None is false, a list is false when empty, a response object
\* (a pydantic model) is true.
Hit(cached) ==
    /\ cached # None
    /\ (Val(cached).kind = "list" => Val(cached).items # <<>>)

\* The cache keys: the md5 of these strings, taken as injective. Points are
\* <<lat, lon>> pairs and are written lon,lat.
OptimizeKey(req) == <<"tsp", req.profile, req.points, req.roundtrip>>
RouteKey(req) == <<"route", req.profile, req.points>>
ForwardKey(req) == <<"fwd", req.query, req.limit>>
ReverseKey(req) == <<"rev", req.lat, req.lon>>

OsmReply(op, status, key) ==
    response' = [op |-> op, status |-> status, id |-> Some(key), effect |-> "none",
                 detail |-> None]

OsmResult(op, key, value) ==
    response' = [op |-> op, status |-> 200, id |-> Some(key), effect |-> "none",
                 detail |-> None, body |-> value]

\* The reply to an answer of OSRM that yields no route. http_error: a
\* timeout, no connection or a non-success status, all of them httpx.HTTPError
\* (502); not_json: a body resp.json() cannot parse, which raises a ValueError
\* that only the generic exception handler of main.py catches (500); not_ok:
\* JSON whose "code" is missing or not "Ok" (400); no_routes: code "Ok"
\* without "routes", a KeyError (500).
OsrmFailureStatus(osrm) ==
    CASE osrm.kind = "http_error" -> 502
      [] osrm.kind = "not_json" -> 500
      [] osrm.kind = "not_ok" -> 400
      [] osrm.kind = "no_routes" -> 500

\* The GET request to router.project-osrm.org/route/v1/{profile}/{coords}
OsrmCall(profile, coords) == [service |-> "osrm", profile |-> profile, coords |-> coords]

\* The inner haversine_distance of optimize_route is used only to compare
\* distances; coordinates are whole units of a local plane, where the central
\* angle grows with the squared planar distance.
distances(points) ==
    [i \in 0..(Len(points) - 1), j \in 0..(Len(points) - 1) |->
        IF i = j THEN 0
        ELSE (points[i + 1][1] - points[j + 1][1]) * (points[i + 1][1] - points[j + 1][1])
             + (points[i + 1][2] - points[j + 1][2]) * (points[i + 1][2] - points[j + 1][2])]

\* A variant in which a later point at the same distance replaces the nearest.
RECURSIVE NearestLastWins(_, _, _, _, _, _)
NearestLastWins(j, n, current, visited, dist, best) ==
    IF j = n THEN best
    ELSE NearestLastWins(j + 1, n, current, visited, dist,
             IF j \notin visited /\ (best = <<>> \/ dist[current, j] <= best[2])
             THEN <<j, dist[current, j]>>
             ELSE best)

\* lines 303-306: the scan for j in range(n); best is <<nearest, min_dist>>, or
\* <<>> for nearest None and min_dist infinite.
RECURSIVE Nearest(_, _, _, _, _, _)
Nearest(j, n, current, visited, dist, best) ==
    IF j = n THEN best
    ELSE Nearest(j + 1, n, current, visited, dist,
             IF j \notin visited /\ (best = <<>> \/ dist[current, j] < best[2])
             THEN <<j, dist[current, j]>>
             ELSE best)

\* lines 293-310: the n - 1 rounds of the nearest-neighbour loop
RECURSIVE Tour(_, _, _, _)
Tour(order, rounds, n, dist) ==
    IF rounds = 0 THEN order
    ELSE LET visited == {order[k] : k \in DOMAIN order}
             best == Nearest(0, n, order[Len(order)], visited, dist, <<>>)
         IN  IF best # <<>>
             THEN Tour(Append(order, best[1]), rounds - 1, n, dist)
             ELSE Tour(order, rounds - 1, n, dist)

\* A variant that keeps the closing point of a round trip.
VisitOrderClosed(req) ==
    LET n == Len(req.points)
        order == Tour(<<0>>, n - 1, n, distances(req.points))
    IN  IF req.roundtrip THEN Append(order, order[1]) ELSE order

\* lines 293-317, 339: the original indices in visiting order; with roundtrip
\* the start is appended and the last element is dropped again.
VisitOrder(req) ==
    LET n == Len(req.points)
        order == Tour(<<0>>, n - 1, n, distances(req.points))
        closed == IF req.roundtrip THEN Append(order, order[1]) ELSE order
    IN  IF req.roundtrip THEN SubSeq(closed, 1, Len(closed) - 1) ELSE closed

\* POST /osm/route/optimize; osrm is OSRM's answer when it is asked
optimize_route(req, osrm) ==
    LET key == OptimizeKey(req)
        cached == get_cache(key)
        slots == IF Len(req.points) = 2 THEN <<0, 1>> ELSE VisitOrder(req)
        coords == [k \in DOMAIN slots |-> req.points[slots[k] + 1]]
        result == [kind |-> "OptimizeResponse", route |-> osrm.route, waypoints |-> slots]
    IN  /\ UNCHANGED <<db, inflight, heap, now>>
        /\ IF Hit(cached)
           THEN /\ OsmResult("optimize_route", key, Val(cached))
                /\ cache' = AfterLookup(key)
                /\ oracle' = <<>>
           ELSE /\ oracle' = <<OsrmCall(req.profile, coords)>>
                /\ IF osrm.kind = "ok"
                   THEN /\ OsmResult("optimize_route", key, result)
                        /\ cache' = set_cache(AfterLookup(key), key, result)
                   ELSE /\ OsmReply("optimize_route", OsrmFailureStatus(osrm), key)
                        /\ cache' = AfterLookup(key)

\* POST /osm/route/calculate
calculate_route(req, osrm) ==
    LET key == RouteKey(req)
        cached == get_cache(key)
        result == [kind |-> "RouteResponse", route |-> osrm.route]
    IN  /\ UNCHANGED <<db, inflight, heap, now>>
        /\ IF Hit(cached)
           THEN /\ OsmResult("calculate_route", key, Val(cached))
                /\ cache' = AfterLookup(key)
                /\ oracle' = <<>>
           ELSE /\ oracle' = <<OsrmCall(req.profile, req.points)>>
                /\ IF osrm.kind = "ok"
                   THEN /\ OsmResult("calculate_route", key, result)
                        /\ cache' = set_cache(AfterLookup(key), key, result)
                   ELSE /\ OsmReply("calculate_route", OsrmFailureStatus(osrm), key)
                        /\ cache' = AfterLookup(key)

\* POST /osm/geocode/forward; nominatim is Nominatim's answer when it is asked
geocode_forward(req, nominatim) ==
    LET key == ForwardKey(req)
        cached == get_cache(key)
        results == [kind |-> "list", items |-> nominatim.data]
    IN  /\ UNCHANGED <<db, inflight, heap, now>>
        /\ IF Hit(cached)
           THEN /\ OsmResult("geocode_forward", key, Val(cached))
                /\ cache' = AfterLookup(key)
                /\ oracle' = <<>>
           ELSE /\ oracle' = <<[service |-> "nominatim", path |-> "search", q |-> req.query,
                                limit |-> req.limit]>>
                /\ CASE nominatim.kind = "http_error" ->
                            OsmReply("geocode_forward", 502, key) /\ cache' = AfterLookup(key)
                     [] nominatim.kind = "ok" ->
                            /\ OsmResult("geocode_forward", key, results)
                            /\ cache' = set_cache(AfterLookup(key), key, results)

\* POST /osm/geocode/reverse
geocode_reverse(req, nominatim) ==
    LET key == ReverseKey(req)
        cached == get_cache(key)
        result == [kind |-> "GeocodeResult", place |-> nominatim.data]
    IN  /\ UNCHANGED <<db, inflight, heap, now>>
        /\ IF Hit(cached)
           THEN /\ OsmResult("geocode_reverse", key, Val(cached))
                /\ cache' = AfterLookup(key)
                /\ oracle' = <<>>
           ELSE /\ oracle' = <<[service |-> "nominatim", path |-> "reverse", lat |-> req.lat,
                                lon |-> req.lon]>>
                /\ CASE nominatim.kind = "http_error" ->
                            OsmReply("geocode_reverse", 502, key) /\ cache' = AfterLookup(key)
                     [] nominatim.kind = "error" ->
                            OsmReply("geocode_reverse", 404, key) /\ cache' = AfterLookup(key)
                     [] nominatim.kind = "ok" ->
                            /\ OsmResult("geocode_reverse", key, result)
                            /\ cache' = set_cache(AfterLookup(key), key, result)

\* Half an hour passes.
Tick ==
    /\ now' = now + CACHE_TTL \div 2
    /\ UNCHANGED <<db, response, inflight, heap, cache, oracle>>

\* The answers of the two services.
OsrmFailures == {[kind |-> k] : k \in {"http_error", "not_json", "not_ok", "no_routes"}}

OsrmAnswers(routes) == OsrmFailures \cup {[kind |-> "ok", route |-> r] : r \in routes}

SearchAnswers(lists) == {[kind |-> "http_error"]} \cup {[kind |-> "ok", data |-> l] : l \in lists}

ReverseAnswers(places) ==
    {[kind |-> "http_error"], [kind |-> "error"]} \cup {[kind |-> "ok", data |-> p] : p \in places}

\* The requests of the route scenarios: every list of 2 to MaxPoints points of
\* a grid with equidistant points, repeated points included, round trip or
\* not. A client sends one request and repeats it; no entry expires.
MaxPoints == 4

Grid == {<<0, 0>>, <<1, 0>>, <<0, 1>>, <<3, 0>>}

OptimizeRequests ==
    {[points |-> ps, profile |-> "driving", roundtrip |-> rt] :
        ps \in UNION {[1..n -> Grid] : n \in 2..MaxPoints}, rt \in BOOLEAN}

NextTsp ==
    \E req \in OptimizeRequests, osrm \in OsrmAnswers({"r1"}) :
        /\ response.op = "none" \/ response.id = Some(OptimizeKey(req))
        /\ optimize_route(req, osrm)

SpecTsp == InitWith(SyncDom) /\ [][NextTsp]_vars

\* The requests of the cache scenarios: one request of each endpoint, answers
\* that differ from one call to the next, an empty list of places among
\* them, and a clock that reaches MaxTicks half hours.
MaxTicks == 4
MaxCached == 2

CacheDom ==
    [optimize |-> {[points |-> <<(<<0, 0>>), (<<1, 0>>)>>, profile |-> "driving", roundtrip |-> TRUE]},
     route |-> {[points |-> <<(<<0, 0>>), (<<1, 0>>)>>, profile |-> "driving"]},
     forward |-> {[query |-> "q", limit |-> 5]},
     reverse |-> {[lat |-> 0, lon |-> 0]},
     routes |-> {"r1", "r2"}, lists |-> {<<>>, <<"g1">>}, places |-> {"g1", "g2"},
     max_cached |-> MaxCached, max_ticks |-> MaxTicks]

Room(D, key) == key \in DOMAIN cache \/ Cardinality(DOMAIN cache) < D.max_cached

NextOsm(D) ==
    \/ \E req \in D.optimize, osrm \in OsrmAnswers(D.routes) :
           Room(D, OptimizeKey(req)) /\ optimize_route(req, osrm)
    \/ \E req \in D.route, osrm \in OsrmAnswers(D.routes) :
           Room(D, RouteKey(req)) /\ calculate_route(req, osrm)
    \/ \E req \in D.forward, nominatim \in SearchAnswers(D.lists) :
           Room(D, ForwardKey(req)) /\ geocode_forward(req, nominatim)
    \/ \E req \in D.reverse, nominatim \in ReverseAnswers(D.places) :
           Room(D, ReverseKey(req)) /\ geocode_reverse(req, nominatim)
    \/ now < D.max_ticks * (CACHE_TTL \div 2) /\ Tick

SpecCache == InitWith(SyncDom) /\ [][NextOsm(CacheDom)]_vars

\* ------------------------------------------------------- concurrent create_poi
\* create_poi is a coroutine (async def). A worker process runs one event loop:
\* a request is suspended only at an await (the geocoder calls, lines 37 and
\* 46), and the code from the duplicate check to the commit (lines 56-131) has
\* none, so within a worker it runs without another request of that worker in
\* between. Requests served by different workers run side by side, each in
\* its own Session: the check reads the rows committed so far, the commit
\* inserts, and nothing (no lock, no unique constraint on the table) ties the
\* two together.
MaxRequests == 3

\* lines 19-54: validation, model_dump and the geocoder awaits of request r,
\* served by worker w.
ReceivePoi(r, w, req, geo) ==
    /\ r = Len(inflight) + 1
    /\ inflight' = Append(inflight,
                          [worker |-> w, pc |-> IF req[2].trip_id = req[1] /\ req[1] \in trips
                                  THEN "await" ELSE "done",
                           trip_id |-> req[1], payload |-> req[2],
                           data |-> Geocoded(req[2], geo), status |-> 0])
    /\ UNCHANGED <<db, response, heap, osm>>

\* A variant in which the handler may be suspended between its check and its
\* commit (an await in between).
LoopFreeNever(r) == TRUE

\* The event loop of r's worker can run r's check: no request of the worker is
\* between its check and its commit.
LoopFree(r) ==
    \A q \in DOMAIN inflight : inflight[q].worker = inflight[r].worker => inflight[q].pc # "checked"

\* lines 56-125: the duplicate check of request r on the committed rows
CheckPoi(r, order) ==
    /\ inflight[r].pc = "await"
    /\ LoopFree(r)
    /\ LET q == inflight[r]
           verdict == IF CheckRuns(q.data.lat, q.data.lng)
                      THEN DuplicateScan(order, pois, items, q.data.lat, q.data.lng,
                                         NewPoiDate(q.payload.scheduled_at))
                      ELSE None
       IN  IF verdict # None
           THEN /\ inflight' = [inflight EXCEPT ![r].pc = "done", ![r].status = 400]
                /\ ReplyError("create_poi", 400, verdict)
           ELSE /\ inflight' = [inflight EXCEPT ![r].pc = "checked"]
                /\ UNCHANGED <<db, response>>
    /\ UNCHANGED <<heap, osm>>

\* lines 127-131: the insert and commit of request r
CommitPoi(r) ==
    /\ inflight[r].pc = "checked"
    /\ LET q == inflight[r]
       IN  /\ pois' = Extend(pois, nextPoiId,
                             [trip_id |-> q.trip_id, name |-> q.payload.name,
                              lat |-> q.data.lat, lng |-> q.data.lng,
                              scheduled_at |-> q.payload.scheduled_at,
                              duration_minutes |-> q.payload.duration_minutes])
           /\ nextPoiId' = nextPoiId + 1
           /\ inflight' = [inflight EXCEPT ![r].pc = "done", ![r].status = 201]
           /\ ReplyOk("create_poi", 201, nextPoiId, "none")
           /\ UNCHANGED <<trips, items, nextItemId, heap, osm>>

\* Requests for point A of trip 1, undated or for day 0, by two workers.
Workers == {1, 2}

RaceDom ==
    [DupDom EXCEPT
        !.geos = {None},
        !.poi_posts = OnTrip(POIWrite({1}, {<<Some(100), Some(7)>>}, {FALSE}, {None, Some(0)}, {None}))]

NextRace ==
    \/ \E r \in 1..MaxRequests, w \in Workers, req \in RaceDom.poi_posts :
         \E geo \in GeocoderAnswers(req[2], RaceDom.geos) : ReceivePoi(r, w, req, geo)
    \/ \E r \in DOMAIN inflight :
         \E order \in Orders(ExistingPois(pois, inflight[r].trip_id)) : CheckPoi(r, order)
    \/ \E r \in DOMAIN inflight : CommitPoi(r)

SpecRace == InitWith(RaceDom) /\ [][NextRace]_vars

\* ------------------------------------------------- concurrent /osm requests
\* The handlers are coroutines of one event loop: optimize_route runs without
\* suspension up to its await of OSRM and again from the answer on; other
\* requests and the clock move in between. _cache belongs to the process.

\* lines 227-229, 317-320: the original indices and the points sent to OSRM
OptimizeSlots(req) == IF Len(req.points) = 2 THEN <<0, 1>> ELSE VisitOrder(req)

OptimizeCoords(req) ==
    [k \in DOMAIN OptimizeSlots(req) |-> req.points[OptimizeSlots(req)[k] + 1]]

\* optimize_route from its start to the await of OSRM (lines 216-234, 325)
LookupOptimize(req) ==
    LET key == OptimizeKey(req)
        cached == get_cache(key)
    IN  /\ cache' = AfterLookup(key)
        /\ UNCHANGED <<db, heap, now>>
        /\ IF Hit(cached)
           THEN /\ OsmResult("optimize_route", key, Val(cached))
                /\ oracle' = <<>>
                /\ inflight' = Append(inflight, [req |-> req, pc |-> "done"])
           ELSE /\ oracle' = <<OsrmCall(req.profile, OptimizeCoords(req))>>
                /\ inflight' = Append(inflight, [req |-> req, pc |-> "await"])
                /\ UNCHANGED response

\* optimize_route from OSRM's answer to its return (lines 236-256, 329-350)
AnswerOptimize(r, osrm) ==
    LET req == inflight[r].req
        key == OptimizeKey(req)
        result == [kind |-> "OptimizeResponse", route |-> osrm.route,
                   waypoints |-> OptimizeSlots(req)]
    IN  /\ inflight[r].pc = "await"
        /\ inflight' = [inflight EXCEPT ![r].pc = "done"]
        /\ UNCHANGED <<db, heap, now, oracle>>
        /\ IF osrm.kind = "ok"
           THEN /\ OsmResult("optimize_route", key, result)
                /\ cache' = set_cache(cache, key, result)
           ELSE /\ OsmReply("optimize_route", OsrmFailureStatus(osrm), key)
                /\ UNCHANGED cache

NextOsmRace ==
    \/ \E req \in CacheDom.optimize : Len(inflight) < MaxRequests /\ LookupOptimize(req)
    \/ \E r \in DOMAIN inflight, osrm \in OsrmAnswers(CacheDom.routes) : AnswerOptimize(r, osrm)
    \/ now < MaxTicks * (CACHE_TTL \div 2) /\ Tick

SpecOsmRace == InitWith(SyncDom) /\ [][NextOsmRace]_vars

\* ------------------------------------------------- the session of a request
\* An item handler writes through the Session of its request: db.add,
\* db.delete and setattr followed by db.flush() or by the autoflush of the next
\* query send the statement inside the transaction of the request, and the one
\* db.commit() at the end of the handler (lines 44, 101, 150) makes the item
\* write and the POI side effect visible together. A request that ends before
\* its commit leaves the session to be closed, which rolls the transaction
\* back. trips, pois and items are the committed rows.

\* A variant in which the flush makes the item write visible at once.
FlushCommitting(committed, written) == written

\* db.flush() (lines 32, 127) and the autoflush of lines 80 and 90: the
\* committed rows after the statement was sent
Flush(committed, written) == committed

\* The item rows as the handler has written them before its side effect.
SessionItems(w) ==
    CASE w.op = "create_item" -> Extend(items, nextItemId, w.payload)
      [] w.op = "update_item" -> [items EXCEPT ![w.item_id] = w.payload]
      [] w.op = "delete_item" -> Remove(items, w.item_id)

\* The request passes the checks that precede the write (lines 18-28, 59-72,
\* 113-115).
ItemWriteValid(w) ==
    CASE w.op = "create_item" ->
             /\ w.payload.trip_id = w.trip_id /\ w.trip_id \in trips
             /\ Truthy(w.payload.poi_id) =>
                    PoiInTrip(pois, Val(w.payload.poi_id), w.trip_id) # None
      [] w.op = "update_item" ->
             /\ ItemInTrip(items, w.item_id, w.trip_id) # None
             /\ Truthy(w.payload.poi_id) =>
                    PoiInTrip(pois, Val(w.payload.poi_id), w.trip_id) # None
             /\ w.payload.trip_id = w.trip_id
      [] w.op = "delete_item" -> ItemInTrip(items, w.item_id, w.trip_id) # None

ItemHandler(w) ==
    CASE w.op = "create_item" -> create_item(w.trip_id, w.payload)
      [] w.op = "update_item" -> update_item(w.trip_id, w.item_id, w.payload)
      [] w.op = "delete_item" -> delete_item(w.trip_id, w.item_id)

\* The handler up to the flush of its item write; a request that fails a check
\* is answered at once.
StartItemWrite(w) ==
    /\ inflight = <<>>
    /\ UNCHANGED <<heap, osm>>
    /\ IF ItemWriteValid(w)
       THEN /\ inflight' = <<w>>
            /\ items' = Flush(items, SessionItems(w))
            /\ UNCHANGED <<trips, pois, nextPoiId, nextItemId, response>>
       ELSE ItemHandler(w) /\ UNCHANGED inflight

\* The handler from the flush to its return: the side effect and db.commit()
CommitItemWrite ==
    /\ inflight # <<>>
    /\ ItemHandler(inflight[1])
    /\ inflight' = <<>>
    /\ UNCHANGED <<heap, osm>>

\* The request ends between the flush and the commit (the connection to the
\* store is lost, the worker is stopped): nothing of it was committed.
FailItemWrite ==
    /\ inflight # <<>>
    /\ inflight' = <<>>
    /\ response' = [op |-> inflight[1].op, status |-> 500, id |-> None, effect |-> "none",
                    detail |-> None]
    /\ UNCHANGED <<db, heap, osm>>

\* The requests of the session scenarios: unscheduled POIs and items at two
\* instants, with or without a POI.
TxnDom ==
    [UnscheduledDom EXCEPT
        !.item_writes = OnTrip(ItineraryItemWrite({1}, Opt(1..MaxPois), {<<0, None>>, <<30, None>>}))]

ItemWrites(D) ==
    {[op |-> "create_item", trip_id |-> req[1], item_id |-> 0, payload |-> req[2]] :
        req \in D.item_writes}
    \cup {[op |-> "update_item", trip_id |-> req[1], item_id |-> i, payload |-> req[2]] :
            req \in D.item_writes, i \in 1..D.max_items}
    \cup {[op |-> "delete_item", trip_id |-> t, item_id |-> i, payload |-> None] :
            t \in D.trip_ids, i \in 1..D.max_items}

NextTxn ==
    \/ \E req \in TxnDom.poi_posts :
         \E geo \in GeocoderAnswers(req[2], TxnDom.geos), order \in Orders(ExistingPois(pois, req[1])) :
            /\ inflight = <<>> /\ nextPoiId <= TxnDom.max_pois
            /\ create_poi(req[1], req[2], geo, order) /\ UNCHANGED aux
    \/ \E w \in ItemWrites(TxnDom) :
            (w.op = "create_item" => nextItemId <= TxnDom.max_items) /\ StartItemWrite(w)
    \/ CommitItemWrite
    \/ FailItemWrite

SpecTxn == InitWith(TxnDom) /\ [][NextTxn]_vars

\* ------------------------------------------------------------------ claims
\* The last request was a create_item or update_item that succeeded, and
\* ItemWritten is the row it wrote (the payload as persisted).
ItemWriteDone(r) == r.op \in {"create_item", "update_item"} /\ r.status \in {200, 201}
ItemWritten == items[Val(response.id)]

\* The fields of a POI row other than scheduled_at / other than the two
\* scheduling fields.
SameButSchedule(a, b) == [a EXCEPT !.scheduled_at = None] = [b EXCEPT !.scheduled_at = None]

\* C1: after a successful create_item or update_item whose payload has poi_id
\* and start_ts, the referenced POI's scheduled_at equals the payload's start_ts.
C1_ScheduledAtIsStart ==
    (ItemWriteDone(response) /\ ItemWritten.poi_id # None /\ ItemWritten.start_ts # None)
        => /\ Val(ItemWritten.poi_id) \in DOMAIN pois
           /\ pois[Val(ItemWritten.poi_id)].scheduled_at = ItemWritten.start_ts

\* An item was moved (update_item) onto a POI that was scheduled at another
\* instant, and the POI now carries the item's start.
C1_Witness ==
    /\ response.op = "update_item" /\ response.status = 200
    /\ ItemWritten.poi_id # None
    /\ pois[Val(ItemWritten.poi_id)].scheduled_at = Some(30)
    /\ \E j \in DOMAIN items : j # Val(response.id) /\ items[j].poi_id = ItemWritten.poi_id
                                /\ items[j].start_ts = Some(0)

\* C2: when update_item moves an item away from POI P (to another POI or to
\* none) and no other item references P with a start_ts, P.scheduled_at is
\* null afterwards and the rest of P's row is unchanged.
C2_OldPoiCleared ==
    [][\A i \in DOMAIN items :
        (/\ response'.op = "update_item" /\ response'.status = 200 /\ response'.id = Some(i)
         /\ items[i].poi_id # None
         /\ items'[i].poi_id # items[i].poi_id
         /\ Val(items[i].poi_id) \in DOMAIN pois
         /\ ScheduledItemsOfPoi(items', Val(items[i].poi_id)) = {})
        => LET P == Val(items[i].poi_id)
           IN  /\ P \in DOMAIN pois'
               /\ pois'[P].scheduled_at = None
               /\ SameButSchedule(pois'[P], pois[P])]_vars

\* C3: when delete_item removes an item that referenced POI P and no other
\* item references P afterwards, P is deleted in the same step, whatever its
\* fields were.
C3_OrphanPoiDeleted ==
    [][\A i \in DOMAIN items :
        (/\ response'.op = "delete_item" /\ response'.status = 204 /\ response'.id = Some(i)
         /\ items[i].poi_id # None
         /\ Val(items[i].poi_id) \in DOMAIN pois
         /\ ItemsOfPoi(items', Val(items[i].poi_id)) = {})
        => /\ i \notin DOMAIN items'
           /\ Val(items[i].poi_id) \notin DOMAIN pois']_vars

\* delete_item has just deleted the POI of the item it removed.
C3_Witness ==
    /\ response.op = "delete_item" /\ response.status = 204 /\ response.effect = "deleted"
    /\ Val(response.id) \notin DOMAIN items
    /\ \E p \in 1..(nextPoiId - 1) : p \notin DOMAIN pois

\* C4: when delete_item removes an item that referenced POI P and another
\* item still references P, P is kept; its scheduled_at is cleared if none of
\* the remaining items has a start_ts and is unchanged if one has; no other
\* field of P changes.
C4_SharedPoiKept ==
    [][\A i \in DOMAIN items :
        (/\ response'.op = "delete_item" /\ response'.status = 204 /\ response'.id = Some(i)
         /\ items[i].poi_id # None
         /\ Val(items[i].poi_id) \in DOMAIN pois
         /\ ItemsOfPoi(items', Val(items[i].poi_id)) # {})
        => LET P == Val(items[i].poi_id)
           IN  /\ P \in DOMAIN pois'
               /\ SameButSchedule(pois'[P], pois[P])
               /\ pois'[P].scheduled_at =
                      IF ScheduledItemsOfPoi(items', P) = {} THEN None ELSE pois[P].scheduled_at]_vars

\* delete_item has just removed one of two items of a POI, which is kept with
\* its schedule.
C4_Witness ==
    /\ response.op = "delete_item" /\ response.status = 204 /\ response.effect = "kept"
    /\ \E p \in DOMAIN pois : pois[p].scheduled_at # None /\ ScheduledItemsOfPoi(items, p) # {}

\* C5 (as stated): whenever the scheduled_at of a POI that was never scheduled
\* directly is set, it is the earliest start_ts among the items that reference
\* the POI.
C5_EarliestStart ==
    \A p \in DOMAIN pois :
        (pois[p].scheduled_at # None /\ ScheduledItemsOfPoi(items, p) # {})
            => pois[p].scheduled_at = EarliestStart(items, p)

\* C5 (amended): the scheduled_at of a POI that was never scheduled directly
\* follows the last item write: a create_item or update_item that references
\* the POI sets it to that request's start_ts, and no other step gives it a
\* new non-null value.
C5_LastWriteWins ==
    [][\A p \in DOMAIN pois' :
        IF ItemWriteDone(response') /\ items'[Val(response'.id)].poi_id = Some(p)
        THEN pois'[p].scheduled_at = items'[Val(response'.id)].start_ts
        ELSE pois'[p].scheduled_at \in
                 {None, IF p \in DOMAIN pois THEN pois[p].scheduled_at ELSE None}]_vars

\* The last write gave the POI a start that is not the earliest among its items.
C5_Witness ==
    /\ ItemWriteDone(response)
    /\ ItemWritten.poi_id # None
    /\ ItemWritten.start_ts = Some(30)
    /\ pois[Val(ItemWritten.poi_id)].scheduled_at = Some(30)
    /\ EarliestStart(items, Val(ItemWritten.poi_id)) = Some(0)

PoiWriteDone(r) == r.op \in {"update_poi", "update_poi_by_id"} /\ r.status = 200

TimedItemWritten ==
    /\ ItemWriteDone(response)
    /\ ItemWritten.poi_id # None /\ ItemWritten.start_ts # None /\ ItemWritten.end_ts # None

\* C7 (as stated): after such a write the POI's duration_minutes is the span
\* end_ts - start_ts (here: of an item that does not end before it starts) in
\* minutes, rounded to the nearest minute.
C7_DurationRounded ==
    (TimedItemWritten /\ Val(ItemWritten.end_ts) >= Val(ItemWritten.start_ts))
        => pois[Val(ItemWritten.poi_id)].duration_minutes =
               Some(MinutesRound(Val(ItemWritten.end_ts) - Val(ItemWritten.start_ts)))

\* C7 (amended): the POI's duration_minutes is the span in minutes truncated
\* toward zero: the whole minutes d with 60 d <= span < 60 (d + 1) for a span
\* >= 0, and 60 (d - 1) < span <= 60 d for a negative one.
C7_DurationTruncated ==
    TimedItemWritten
        => LET span == Val(ItemWritten.end_ts) - Val(ItemWritten.start_ts)
               minutes == pois[Val(ItemWritten.poi_id)].duration_minutes
           IN  /\ minutes # None
               /\ span >= 0 => 60 * Val(minutes) <= span /\ span < 60 * (Val(minutes) + 1)
               /\ span < 0 => 60 * (Val(minutes) - 1) < span /\ span <= 60 * Val(minutes)

\* An item of 89 min 30 s has just set its POI's duration to 89.
C7_Witness ==
    /\ TimedItemWritten
    /\ Val(ItemWritten.end_ts) - Val(ItemWritten.start_ts) = 5370
    /\ pois[Val(ItemWritten.poi_id)].duration_minutes = Some(89)

\* A create_poi request req = <<trip_id, payload>> that passes validation: the
\* body names the path's trip and the trip exists.
ValidPost(req) == req[2].trip_id = req[1] /\ req[1] \in trips

\* The existing POIs of the trip that lie within 100 m of the candidate
\* position data (empty when the candidate has no resolved position).
Nearby(req, data) ==
    {e \in ExistingPois(pois, req[1]) :
        /\ data.lat # None /\ data.lng # None
        /\ haversine_distance(Val(data.lat), Val(data.lng), Val(pois[e].lat), Val(pois[e].lng)) <= 100}

\* Those of them that have the candidate's date / that, like the candidate, have none.
SameDay(req, data) ==
    {e \in Nearby(req, data) :
        /\ NewPoiDate(req[2].scheduled_at) # None
        /\ ExistingPoiDate(pois, items, e) = NewPoiDate(req[2].scheduled_at)}

BothUnscheduled(req, data) ==
    {e \in Nearby(req, data) :
        /\ req[2].scheduled_at = None /\ pois[e].scheduled_at = None
        /\ ScheduledItemsOfPoi(items, e) = {}}

\* The step rejected the request with a message that names a POI of S, and
\* inserted nothing.
RejectedNaming(S) ==
    /\ response'.status = 400
    /\ response'.detail # None /\ Val(response'.detail).poi \in S
    /\ pois' = pois /\ nextPoiId' = nextPoiId

\* C8: create_poi is rejected, naming the existing POI, and inserts nothing
\* whenever an existing POI of the same trip with coordinates lies at most
\* 100 m from the candidate and both have a date and the dates are equal.
C8_SameDayRejected ==
    [][response'.op = "create_poi" =>
       \A req \in DupDom.poi_posts :
        \A geo \in GeocoderAnswers(req[2], DupDom.geos), order \in Orders(ExistingPois(pois, req[1])) :
            (/\ ValidPost(req)
             /\ SameDay(req, Geocoded(req[2], geo)) # {}
             /\ create_poi(req[1], req[2], geo, order))
            => RejectedNaming(SameDay(req, Geocoded(req[2], geo)))]_vars

\* C9: create_poi is rejected and inserts nothing whenever an existing POI of
\* the same trip with coordinates lies within 100 m of the candidate and
\* neither has a date (no scheduled_at on either, no item with a start_ts on
\* the existing POI).
C9_UnscheduledRejected ==
    [][response'.op = "create_poi" =>
       \A req \in DupDom.poi_posts :
        \A geo \in GeocoderAnswers(req[2], DupDom.geos), order \in Orders(ExistingPois(pois, req[1])) :
            (/\ ValidPost(req)
             /\ BothUnscheduled(req, Geocoded(req[2], geo)) # {}
             /\ create_poi(req[1], req[2], geo, order))
            => RejectedNaming(BothUnscheduled(req, Geocoded(req[2], geo)))]_vars

\* Existing POI e is acceptable next to the candidate: farther than 100 m, or
\* exactly one of the two has a date, or both have dates and they differ.
Acceptable(req, data, e) ==
    LET new_date == NewPoiDate(req[2].scheduled_at)
        old_date == ExistingPoiDate(pois, items, e)
    IN  \/ e \notin Nearby(req, data)
        \/ (new_date = None) # (old_date = None)
        \/ new_date # None /\ old_date # None /\ new_date # old_date

\* C10: a valid create_poi with a resolved position succeeds and inserts the
\* POI (with the resolved position and the payload's fields) whenever every
\* existing POI of the trip with coordinates is acceptable; and when the scan
\* runs, an acceptable nearby POI met first does not hide a conflicting one
\* met later: the request is rejected and nothing is inserted.
C10_AcceptedUnlessConflict ==
    [][response'.op = "create_poi" =>
       \A req \in DupDom.poi_posts :
        \A geo \in GeocoderAnswers(req[2], DupDom.geos), order \in Orders(ExistingPois(pois, req[1])) :
            (ValidPost(req) /\ create_poi(req[1], req[2], geo, order))
            => LET data == Geocoded(req[2], geo)
                   n == Len(order)
               IN  /\ (/\ data.lat # None /\ data.lng # None
                       /\ \A e \in ExistingPois(pois, req[1]) : Acceptable(req, data, e))
                      => /\ response'.status = 201
                         /\ DOMAIN pois' = DOMAIN pois \cup {nextPoiId}
                         /\ \A e \in DOMAIN pois : pois'[e] = pois[e]
                         /\ pois'[nextPoiId].trip_id = req[1]
                         /\ pois'[nextPoiId].lat = data.lat /\ pois'[nextPoiId].lng = data.lng
                         /\ pois'[nextPoiId].scheduled_at = req[2].scheduled_at
                   /\ (/\ CheckRuns(data.lat, data.lng)
                       /\ \E i, j \in 1..n :
                            /\ i < j
                            /\ order[i] \in Nearby(req, data) /\ Acceptable(req, data, order[i])
                            /\ ~Acceptable(req, data, order[j]))
                      => /\ response'.status = 400
                         /\ pois' = pois /\ nextPoiId' = nextPoiId]_vars

\* create_poi has just inserted a POI within 100 m of another POI of its trip
\* that is for another day.
C10_Witness ==
    /\ response.op = "create_poi" /\ response.status = 201
    /\ \E e \in DOMAIN pois \ {Val(response.id)} :
        LET new == pois[Val(response.id)]
        IN  /\ pois[e].trip_id = new.trip_id
            /\ pois[e].lat # None /\ pois[e].lng # None /\ Truthy(new.lat) /\ Truthy(new.lng)
            /\ haversine_distance(Val(new.lat), Val(new.lng), Val(pois[e].lat), Val(pois[e].lng)) = 100
            /\ new.scheduled_at = Some(86400)
            /\ ExistingPoiDate(pois, items, e) = Some(0)

\* C11: the duplicate check is applied exactly when both coordinates are
\* non-null after geocoding, whatever their values (0 included): a valid
\* request with a resolved position is rejected if and only if an existing POI
\* of the trip conflicts with it, and one with a null coordinate is inserted.
C11_CheckedIffResolved ==
    [][response'.op = "create_poi" =>
       \A req \in DupDom.poi_posts :
        \A geo \in GeocoderAnswers(req[2], DupDom.geos), order \in Orders(ExistingPois(pois, req[1])) :
            (ValidPost(req) /\ create_poi(req[1], req[2], geo, order))
            => LET data == Geocoded(req[2], geo)
               IN  IF data.lat # None /\ data.lng # None
                   THEN (response'.status = 400) <=>
                            (\E e \in ExistingPois(pois, req[1]) : ~Acceptable(req, data, e))
                   ELSE response'.status = 201 /\ DOMAIN pois' = DOMAIN pois \cup {nextPoiId}]_vars

\* Requests p and q were both committed and ask for the same place on the
\* same day, or both undated.
BothCommitted(p, q) ==
    /\ p # q
    /\ inflight[p].status = 201 /\ inflight[q].status = 201
    /\ inflight[p].trip_id = inflight[q].trip_id
    /\ haversine_distance(Val(inflight[p].data.lat), Val(inflight[p].data.lng),
                          Val(inflight[q].data.lat), Val(inflight[q].data.lng)) <= 100
    /\ NewPoiDate(inflight[p].payload.scheduled_at) = NewPoiDate(inflight[q].payload.scheduled_at)

\* C12 (as stated): two concurrent create_poi requests for the same location
\* with the same date (or both undated) never both pass the check and commit.
C12_NeverBothCommit ==
    \A p, q \in DOMAIN inflight : ~BothCommitted(p, q)

\* C12 (amended): only the requests served by one worker's event loop are
\* serialised: two such requests that both commit were served by different
\* workers.
C12_AtomicPerWorker ==
    \A p, q \in DOMAIN inflight : BothCommitted(p, q) => inflight[p].worker # inflight[q].worker

\* Two requests for the same place and day were both committed, and a third,
\* served by the worker of one of them, was rejected.
C12_Witness ==
    \E p, q, x \in DOMAIN inflight :
        /\ BothCommitted(p, q)
        /\ x \notin {p, q} /\ inflight[x].status = 400
        /\ Cardinality(DOMAIN pois) = 2

\* A 200 reply of get_schedule.
ScheduleReturned == response.op = "get_schedule" /\ response.status = 200

\* C13: in every schedule get_schedule returns, the days are strictly ascending
\* by date, every activity of a day starts on that day's date, and the
\* activities of a day are in non-decreasing order of start time.
C13_DaysAndActivitiesOrdered ==
    ScheduleReturned =>
        LET days == response.body.days
        IN  /\ \A k \in 1..(Len(days) - 1) : days[k].date < days[k + 1].date
            /\ \A k \in DOMAIN days :
                   LET acts == days[k].activities
                   IN  /\ \A j \in DOMAIN acts :
                              /\ acts[j].start_time # None
                              /\ DateOf(Val(acts[j].start_time)) = days[k].date
                       /\ \A j \in 1..(Len(acts) - 1) :
                              Val(acts[j].start_time) <= Val(acts[j + 1].start_time)

\* A schedule of two days whose first day holds a POI activity and two item
\* activities of different start times.
C13_Witness ==
    /\ ScheduleReturned
    /\ Len(response.body.days) = 2
    /\ LET acts == response.body.days[1].activities
       IN  /\ Len(acts) = 3
           /\ \E j, k \in DOMAIN acts :
                  /\ acts[j].type = "poi" /\ acts[k].type = "itinerary_item"
           /\ \E j, k \in DOMAIN acts : acts[j].start_time # acts[k].start_time

\* The positions of a day's activities followed by a gap of at least 15
\* minutes after a known end.
GapOf(acts, i) == Val(acts[i + 1].start_time) - Val(acts[i].end_time)

WideGaps(acts) ==
    {i \in 1..(Len(acts) - 1) : acts[i].end_time # None /\ GapOf(acts, i) >= 900}

\* C14: in every day of a returned schedule there is one free-time window for
\* each pair of consecutive activities whose earlier one has a known end at
\* least 15 minutes (900 s) before the later one's start, and no other; the
\* window spans that end to that start and its duration is the gap in whole
\* minutes, truncated.
C14_FreeTimeWindows ==
    ScheduleReturned =>
        \A k \in DOMAIN response.body.days :
            LET acts == response.body.days[k].activities
                slots == response.body.days[k].free_time_slots
                SlotOf(i) == [start_time |-> acts[i].end_time,
                              end_time |-> acts[i + 1].start_time,
                              duration_minutes |-> GapOf(acts, i) \div 60]
            IN  /\ Len(slots) = Cardinality(WideGaps(acts))
                /\ \A i \in WideGaps(acts) : \E j \in DOMAIN slots : slots[j] = SlotOf(i)
                /\ \A j \in DOMAIN slots : \E i \in WideGaps(acts) : slots[j] = SlotOf(i)

\* A day whose activities are an item ending at 00:15:00 and an item starting
\* at 00:30:59, with one window of 15 minutes between them.
C14_Witness ==
    /\ ScheduleReturned
    /\ \E k \in DOMAIN response.body.days :
           LET day == response.body.days[k]
           IN  /\ Len(day.activities) = 2
               /\ day.activities[1].end_time = Some(900)
               /\ day.activities[2].start_time = Some(1859)
               /\ day.free_time_slots =
                      <<[start_time |-> Some(900), end_time |-> Some(1859),
                         duration_minutes |-> 15]>>

\* The POI activities of a returned schedule.
PoiActivitiesReturned ==
    {a \in UNION {{response.body.days[k].activities[j] :
                      j \in DOMAIN response.body.days[k].activities} :
                  k \in DOMAIN response.body.days} : a.type = "poi"}

\* C15: every POI activity of a returned schedule whose POI has a non-null
\* duration_minutes, 0 included, ends at scheduled_at plus that many minutes;
\* its end is null only when duration_minutes is null.
C15_PoiEndIsStartPlusDuration ==
    ScheduleReturned =>
        \A a \in PoiActivitiesReturned :
            LET poi == pois[Val(a.poi_id)]
            IN  IF poi.duration_minutes # None
                THEN a.end_time = Some(Val(poi.scheduled_at) + 60 * Val(poi.duration_minutes))
                ELSE a.end_time = None

TimesInDays(id) ==
    Cardinality({<<k, j>> \in (DOMAIN response.body.days) \X (1..(MaxPois + MaxItems)) :
                    /\ j \in DOMAIN response.body.days[k].activities
                    /\ response.body.days[k].activities[j].id = id})

TimesIn(list, x) == Cardinality({j \in DOMAIN list : list[j] = x})

\* C17: in a returned schedule every POI of the trip appears exactly once, as
\* a POI activity when its scheduled_at is set and in unscheduled_pois
\* otherwise, and every item of the trip exactly once, as an item activity
\* when its start_ts is set and in unscheduled_items otherwise.
C17_EveryRowExactlyOnce ==
    ScheduleReturned =>
        LET trip_id == Val(response.id)
        IN  /\ \A p \in DOMAIN pois :
                   pois[p].trip_id = trip_id =>
                       /\ TimesInDays(<<"poi", p>>)
                              = (IF pois[p].scheduled_at # None THEN 1 ELSE 0)
                       /\ TimesIn(response.body.unscheduled_pois, p)
                              = (IF pois[p].scheduled_at # None THEN 0 ELSE 1)
            /\ \A i \in DOMAIN items :
                   items[i].trip_id = trip_id =>
                       /\ TimesInDays(<<"item", i>>)
                              = (IF items[i].start_ts # None THEN 1 ELSE 0)
                       /\ TimesIn(response.body.unscheduled_items, i)
                              = (IF items[i].start_ts # None THEN 0 ELSE 1)

\* A schedule of a trip with a scheduled POI, an unscheduled POI and two
\* scheduled items.
C17_Witness ==
    /\ ScheduleReturned
    /\ Len(response.body.unscheduled_pois) = 1
    /\ \E p \in DOMAIN pois : TimesInDays(<<"poi", p>>) = 1
    /\ \A i \in 1..MaxItems : TimesInDays(<<"item", i>>) = 1

\* w visits the points nearest neighbour first: it is a permutation of
\* 0..n-1 that starts at 0, and each next index is an unvisited point at
\* minimal matrix distance from the previous one, the lowest index among the
\* equidistant ones.
NearestNeighbourOrder(w, points) ==
    LET n == Len(points)
        dist == distances(points)
    IN  /\ Len(w) = n
        /\ w[1] = 0
        /\ {w[k] : k \in 1..n} = 0..(n - 1)
        /\ \A k \in 2..n :
               \A j \in (0..(n - 1)) \ {w[m] : m \in 1..(k - 1)} :
                   \/ dist[w[k - 1], w[k]] < dist[w[k - 1], j]
                   \/ dist[w[k - 1], w[k]] = dist[w[k - 1], j] /\ w[k] <= j

\* The points of the request optimize_route has replied to.
PointsAsked == Val(response.id)[3]

\* C18: for 3 or more points the visiting order optimize_route returns is the
\* nearest-neighbour order of the points from index 0, the lowest index
\* winning ties; that order is unique, so the same input yields the same order.
C18_NearestNeighbourOrder ==
    (response.op = "optimize_route" /\ response.status = 200 /\ Len(PointsAsked) >= 3) =>
        NearestNeighbourOrder(response.body.waypoints, PointsAsked)

\* Four distinct points of which the third and the fourth are equally near
\* the first: the third is visited first, the second last.
C18_Witness ==
    /\ response.op = "optimize_route" /\ response.status = 200
    /\ PointsAsked = <<(<<0, 0>>), (<<3, 0>>), (<<0, 1>>), (<<1, 0>>)>>
    /\ response.body.waypoints = <<0, 2, 3, 1>>

\* C19: when optimize_route finds no live cache entry it sends exactly one
\* route request to OSRM: the two points in input order, or for 3 or more
\* points the n points in nearest-neighbour visiting order, without a closing
\* point; the waypoints of a 200 reply give the original index of each point
\* sent, in the order sent.
C19_OneRouteCallInVisitingOrder ==
    [][response'.op = "optimize_route" =>
          LET key == Val(response'.id)
              points == key[3]
              n == Len(points)
              Sent(w) == [k \in 1..n |-> points[w[k] + 1]]
          IN  ~(key \in DOMAIN cache /\ now < cache[key].expiry) =>
                  /\ Len(oracle') = 1
                  /\ oracle'[1].service = "osrm"
                  /\ IF n = 2
                     THEN oracle'[1].coords = points
                     ELSE \E w \in [1..n -> 0..(n - 1)] :
                              /\ NearestNeighbourOrder(w, points)
                              /\ oracle'[1].coords = Sent(w)
                  /\ response'.status = 200 =>
                         /\ Len(response'.body.waypoints) = n
                         /\ oracle'[1].coords = Sent(response'.body.waypoints)
                         /\ n = 2 => response'.body.waypoints = <<0, 1>>]_vars

\* A round trip over three points answered from OSRM: three points were sent,
\* not in input order.
C19_Witness ==
    /\ response.op = "optimize_route" /\ response.status = 200
    /\ Val(response.id)[4] = TRUE
    /\ Len(PointsAsked) = 3
    /\ Len(oracle) = 1 /\ Len(oracle[1].coords) = 3
    /\ oracle[1].coords # PointsAsked

\* The handlers of the cached endpoints.
CachedEndpoints == {"optimize_route", "calculate_route", "geocode_forward", "geocode_reverse"}

\* C20: a request of a cached endpoint whose fingerprint has an entry computed
\* less than one hour ago is answered with the stored value, whatever it is,
\* without a request to OSRM or Nominatim and without a change of the entry or
\* its expiry; a request whose entry is one hour old or older evicts the entry
\* and asks the service again.
C20_CachedForOneHour ==
    [][(response'.op \in CachedEndpoints /\ now' = now) =>
          LET key == Val(response'.id)
          IN  /\ (key \in DOMAIN cache /\ now < cache[key].expiry) =>
                     /\ response'.status = 200
                     /\ response'.body = cache[key].value
                     /\ oracle' = <<>>
                     /\ cache' = cache
              /\ (key \in DOMAIN cache /\ now >= cache[key].expiry) =>
                     /\ Len(oracle') = 1
                     /\ key \in DOMAIN cache' => cache'[key].expiry = now + CACHE_TTL]_vars

\* The statuses of a validation error: 400 of the handler's own check of the
\* request, 422 of the request validation of the framework.
ValidationStatuses == {400, 422}

\* C21: when optimize_route asks OSRM and the call times out, cannot connect,
\* gets a non-success status or gets a malformed answer, the reply is a
\* failure whose status is not that of a validation error, it carries no
\* route, and no cache entry is written or changed.
C21_UpstreamFailure ==
    [][(response'.op = "optimize_route" /\ now' = now) =>
          LET key == Val(response'.id)
              req == [points |-> key[3], profile |-> key[2], roundtrip |-> key[4]]
          IN  \A osrm \in OsrmFailures :
                  (~Hit(get_cache(key)) /\ optimize_route(req, osrm)) =>
                      /\ response'.status \notin {200} \cup ValidationStatuses
                      /\ "body" \notin DOMAIN response'
                      /\ \A k \in DOMAIN cache' : k \in DOMAIN cache /\ cache'[k] = cache[k]]_vars

\* C22: with requests for one key interleaved at the await of OSRM, a lookup
\* that is answered from the cache returns the value of an entry whose expiry
\* has not passed and leaves the cache as it is, any other lookup goes on to
\* ask OSRM whether or not another request is waiting for OSRM, and a request
\* that gets a route leaves under the key exactly the pair of its own value
\* and its own expiry, the other entries untouched.
C22_LookupsAndWritesAreWhole ==
    [][/\ Len(inflight') = Len(inflight) + 1 =>
              LET r == inflight'[Len(inflight')]
                  key == OptimizeKey(r.req)
              IN  IF r.pc = "done"
                  THEN /\ key \in DOMAIN cache /\ now < cache[key].expiry
                       /\ response'.body = cache[key].value
                       /\ cache' = cache
                  ELSE /\ Len(oracle') = 1
                       /\ key \notin DOMAIN cache'
       /\ (Len(inflight') = Len(inflight) /\ inflight' # inflight /\ response'.status = 200) =>
              LET key == Val(response'.id)
              IN  /\ DOMAIN cache' = DOMAIN cache \cup {key}
                  /\ cache'[key] = [value |-> response'.body, expiry |-> now + CACHE_TTL]
                  /\ \A k \in DOMAIN cache \ {key} : cache'[k] = cache[k]]_vars

\* Three requests for the same key have found no entry and wait for OSRM at
\* once, none of them held back by the others.
C22_Witness ==
    /\ Len(inflight) = 3
    /\ \A r \in DOMAIN inflight : inflight[r].pc = "await" /\ "req" \in DOMAIN inflight[r]
    /\ cache = <<>>

ReferencesMissingPoi(req) ==
    /\ req[2].poi_id # None
    /\ \/ Val(req[2].poi_id) \notin DOMAIN pois
       \/ pois[Val(req[2].poi_id)].trip_id # req[1]

\* C24: a create_item or update_item whose payload references a POI that does
\* not exist in the trip of the request path is answered with an error, and
\* the items and the POIs are left exactly as they were: no step that answers
\* with a success, or that changes an item or a POI, is the execution of such
\* a request.
C24_MissingPoiRejected ==
    [][(/\ response'.op \in {"create_item", "update_item"}
        /\ response'.status < 400 \/ items' # items \/ pois' # pois) =>
          \A req \in {r \in RefDom.item_writes : ReferencesMissingPoi(r)} :
              /\ ~create_item(req[1], req[2])
              /\ \A i \in 1..MaxItems : ~update_item(req[1], i, req[2])]_vars

\* An update_item was refused for its POI while an item and POIs of both
\* trips exist.
C24_Witness ==
    /\ response.op = "update_item"
    /\ response.status = 404
    /\ \E i \in DOMAIN items : Truthy(items[i].poi_id)
    /\ {pois[p].trip_id : p \in DOMAIN pois} = {1, 2}
    /\ DOMAIN items = 1..MaxItems

\* The effective date of an existing POI: the date of its own scheduled_at
\* when that is set, otherwise the date of the earliest start_ts among the
\* items that reference it, otherwise absent.
EffectiveDate(e) ==
    LET starts == {Val(items[i].start_ts) :
                      i \in {j \in DOMAIN items : items[j].poi_id = Some(e) /\ items[j].start_ts # None}}
    IN  IF pois[e].scheduled_at # None
        THEN Some(pois[e].scheduled_at[1] \div 86400)
        ELSE IF starts # {}
             THEN Some((CHOOSE t \in starts : \A u \in starts : t <= u) \div 86400)
             ELSE None

\* The date of a candidate: that of its own scheduled_at, otherwise absent.
CandidateDate(payload) ==
    IF payload.scheduled_at # None THEN Some(payload.scheduled_at[1] \div 86400) ELSE None

\* C25: the duplicate check compares the candidate's own date with the
\* effective date of each existing POI. Every POI of this scenario lies at one
\* position, so a create_poi is refused exactly when some POI of the trip has
\* an effective date equal to the candidate's date, absent with absent
\* included.
C25_EffectiveDates ==
    [][response'.op = "create_poi" =>
          \A req \in DateDom.poi_posts :
            \A order \in Orders(ExistingPois(pois, req[1])) :
              create_poi(req[1], req[2], None, order) =>
                  (response'.status = 400 <=>
                      \E e \in DOMAIN pois :
                          /\ pois[e].trip_id = req[1]
                          /\ EffectiveDate(e) = CandidateDate(req[2]))]_vars

\* A candidate of day 1 was accepted beside a POI without scheduled_at whose
\* items are on day 0 and on day 1: that POI's date is the earlier day.
C25_Witness ==
    /\ response.op = "create_poi"
    /\ response.status = 201
    /\ pois[Val(response.id)].scheduled_at = Some(86400)
    /\ \E e \in DOMAIN pois :
          /\ pois[e].scheduled_at = None
          /\ {items[i].start_ts : i \in ItemsOfPoi(items, e)} = {Some(3600), Some(90000)}

\* C26: no trip contains two POIs with resolved coordinates within 100 m of
\* each other whose effective dates are both present and equal, or both
\* absent.
C26_NoDuplicatePois ==
    \A e, f \in DOMAIN pois :
        (/\ e # f
         /\ pois[e].trip_id = pois[f].trip_id
         /\ pois[e].lat # None /\ pois[e].lng # None
         /\ pois[f].lat # None /\ pois[f].lng # None
         /\ haversine_distance(Val(pois[e].lat), Val(pois[e].lng),
                               Val(pois[f].lat), Val(pois[f].lng)) <= MAX_DISTANCE_METERS)
        => EffectiveDate(e) # EffectiveDate(f)

\* C27: a POI that was created unscheduled and never scheduled directly, and
\* whose scheduled_at is set, has scheduled_at equal to the start_ts of some
\* existing item that references it.
C27_ScheduleNeverStale ==
    \A p \in DOMAIN pois :
        pois[p].scheduled_at # None =>
            \E i \in DOMAIN items :
                items[i].poi_id = Some(p) /\ items[i].start_ts = pois[p].scheduled_at

\* C28: no free-time window of a returned schedule overlaps an activity of
\* its day: for every window [s, e] and every activity of that day with known
\* start a and end b, not (a < e and b > s).
C28_WindowsAreFree ==
    ScheduleReturned =>
        \A k \in DOMAIN response.body.days :
            LET day == response.body.days[k]
            IN  \A w \in DOMAIN day.free_time_slots, j \in DOMAIN day.activities :
                    (day.activities[j].start_time # None /\ day.activities[j].end_time # None)
                    => ~(/\ Val(day.activities[j].start_time) < Val(day.free_time_slots[w].end_time)
                         /\ Val(day.activities[j].end_time) > Val(day.free_time_slots[w].start_time))

\* C29: the poi_id of every item is null or the id of an existing POI that
\* belongs to the trip of the item.
C29_ItemsReferenceOwnTripPois ==
    \A i \in DOMAIN items :
        items[i].poi_id # None =>
            /\ Val(items[i].poi_id) \in DOMAIN pois
            /\ pois[Val(items[i].poi_id)].trip_id = items[i].trip_id

\* A POI was deleted directly while POIs and items of both trips existed: one
\* POI is left, an item still references it and another item has no POI.
C29_Witness ==
    /\ response.op \in {"delete_poi", "delete_poi_by_id"}
    /\ response.status = 204
    /\ nextPoiId = MaxPois + 1
    /\ Cardinality(DOMAIN pois) = MaxPois - 1
    /\ {items[i].trip_id : i \in DOMAIN items} = {1, 2}
    /\ \E i, j \in DOMAIN items : items[i].poi_id = None /\ items[j].poi_id # None

\* C30: every item persisted through create_item or update_item has a
\* non-null start_ts; hence the unscheduled_items of every returned schedule
\* is empty, and delete_item never keeps a POI while clearing its scheduled_at.
C30_ItemsAlwaysStart ==
    /\ \A i \in DOMAIN items : items[i].start_ts # None
    /\ ScheduleReturned => response.body.unscheduled_items = <<>>
    /\ ~(response.op = "delete_item" /\ response.effect = "cleared")

\* A schedule was returned for a trip whose two items share one POI.
C30_Witness ==
    /\ ScheduleReturned
    /\ response.body.unscheduled_items = <<>>
    /\ DOMAIN items = 1..MaxItems
    /\ \E p \in DOMAIN pois : ItemsOfPoi(items, p) = DOMAIN items
====
